---- MODULE Spec2Model ----
(***************************************************************************)
(* The RocksDb storage adapter of cita-trie-db (src/src/lib.rs): the four  *)
(* operations of the cita_trie DB trait (get / insert / contains / remove) *)
(* forwarded to a rocksdb engine opened at a filesystem path, and the      *)
(* adapter's lifetime (new / drop).                                        *)
(*                                                                         *)
(* The engine itself (the rocksdb crate) is outside the repository.  It is *)
(* modelled by what its calls return to the adapter: get answers           *)
(* Ok(Some(v)), Ok(None) or Err(reason); put and delete answer Ok(()) or   *)
(* Err(reason); open_default answers a handle or Err(reason).  Whether a   *)
(* call fails is an input of every step (the engine status st).            *)
(*                                                                         *)
(* A failed open makes new panic.  The panic unwinds the calling thread:   *)
(* new returns nothing, the adapters owned by the unwound frames are       *)
(* dropped, and the rest of the program (a caller that catches the unwind, *)
(* another thread) goes on.                                                *)
(***************************************************************************)
EXTENDS Naturals, Sequences, FiniteSets

\* ------------------------------------------------------------------ bounds

\* Number of distinct keys the callers use.
NumKeys == 2

\* Number of distinct byte values a stored byte string is built from.
NumBytes == 1

Keys == 1..NumKeys

\* Values are byte strings; the empty byte string is a value like any other.
Values == {<<>>} \cup {<<b>> : b \in 1..NumBytes}

\* The directory the test opens, drops and opens again.
Paths == {"data"}

\* The adapter bindings of the test (db, db1).
Adapters == {"db", "db1"}

\* What the engine can answer to a call: success, or a failure with its
\* diagnostic string.
EngineFailures == {"IO error"}
EngOk == [fail |-> FALSE, msg |-> ""]
EngErr(reason) == [fail |-> TRUE, msg |-> reason]
EngineStatus == {EngOk} \cup {EngErr(m) : m \in EngineFailures}

\* The diagnostic of an open refused because the path's LOCK is held.
LockHeld == "lock held"

Closed == "closed"

\* --------------------------------------------------------- values, results

None == [some |-> FALSE, val |-> <<>>]
Some(v) == [some |-> TRUE, val |-> v]

OkSome(v) == [ok |-> TRUE, kind |-> "some", val |-> v, err |-> ""]
OkNone == [ok |-> TRUE, kind |-> "none", val |-> <<>>, err |-> ""]
OkUnit == [ok |-> TRUE, kind |-> "unit", val |-> <<>>, err |-> ""]
OkBool(b) == [ok |-> TRUE, kind |-> IF b THEN "true" ELSE "false", val |-> <<>>, err |-> ""]

\* RocksDbError(pub String), built by From<String>.
RocksDbError(reason) == [ok |-> FALSE, kind |-> "err", val |-> <<>>, err |-> reason]

\* panic!(reason): no value is returned, the calling thread unwinds.
Panic(reason) == [ok |-> FALSE, kind |-> "panic", val |-> <<>>, err |-> reason]

EmptyStore == [k \in Keys |-> None]

\* ------------------------------------------------------------------ engine

\* rocksdb::DB::get: a point lookup.
RawGet(store, key, st) ==
    IF st.fail THEN RocksDbError(st.msg)
    ELSE IF store[key].some THEN OkSome(store[key].val)
    ELSE OkNone

\* rocksdb::Writable::put: an upsert; a failed put writes nothing.
RawPut(store, key, value, st) ==
    IF st.fail THEN [res |-> RocksDbError(st.msg), store |-> store]
    ELSE [res |-> OkUnit, store |-> [store EXCEPT ![key] = Some(value)]]

\* rocksdb::Writable::delete: deleting an absent key is no error.
RawDelete(store, key, st) ==
    IF st.fail THEN [res |-> RocksDbError(st.msg), store |-> store]
    ELSE [res |-> OkUnit, store |-> [store EXCEPT ![key] = None]]

\* rocksdb::DB::open_default: open the store at the path, creating an empty
\* one when there is none; refused while the path's lock is held by a live
\* handle, or when the environment fails the open.
OpenDefault(store, existed, locked, st) ==
    IF locked THEN [res |-> RocksDbError(LockHeld), store |-> store]
    ELSE IF st.fail THEN [res |-> RocksDbError(st.msg), store |-> store]
    ELSE [res |-> OkUnit, store |-> IF existed THEN store ELSE EmptyStore]

\* ----------------------------------------------------------------- adapter

\* A get that takes an empty stored value for a missing key.
get_EmptyIsAbsent(store, key, st) ==
    LET r == RawGet(store, key, st) IN
    IF r.ok /\ r.kind = "some" /\ r.val # <<>> THEN OkSome(r.val)
    ELSE IF ~r.ok THEN RocksDbError(r.err)
    ELSE RocksDbError("Key not found")

\* RocksDb::get
get(store, key, st) ==
    LET r == RawGet(store, key, st) IN
    IF r.ok /\ r.kind = "some" THEN OkSome(r.val)
    ELSE IF ~r.ok THEN RocksDbError(r.err)
    ELSE RocksDbError("Key not found")

\* An insert that keeps the value a key already has.
insert_KeepExisting(store, key, value, st) ==
    LET r == RawPut(store, key, value, st) IN
    [res |-> IF r.res.ok THEN OkUnit ELSE RocksDbError(r.res.err),
     store |-> IF store[key].some THEN store ELSE r.store]

\* RocksDb::insert
insert(store, key, value, st) ==
    LET r == RawPut(store, key, value, st) IN
    [res |-> IF r.res.ok THEN OkUnit ELSE RocksDbError(r.res.err), store |-> r.store]

\* A contains that answers true only for a non-empty stored value.
contains_EmptyIsAbsent(store, key, st) ==
    LET r == get(store, key, st) IN
    IF r.ok /\ r.kind = "some" /\ r.val # <<>> THEN OkBool(TRUE) ELSE OkBool(FALSE)

\* RocksDb::contains
contains(store, key, st) ==
    LET r == get(store, key, st) IN
    IF r.ok /\ r.kind = "some" THEN OkBool(TRUE) ELSE OkBool(FALSE)

\* A remove that reports a missing key as an error, as get does.
remove_ErrOnAbsent(store, key, st) ==
    LET r == RawDelete(store, key, st) IN
    [res |-> IF ~r.res.ok THEN RocksDbError(r.res.err)
             ELSE IF ~store[key].some THEN RocksDbError("Key not found")
             ELSE OkUnit,
     store |-> r.store]

\* A remove that deletes every key of the store.
remove_Clear(store, key, st) ==
    LET r == RawDelete(store, key, st) IN
    [res |-> IF r.res.ok THEN OkUnit ELSE RocksDbError(r.res.err),
     store |-> IF r.res.ok THEN EmptyStore ELSE store]

\* RocksDb::remove
remove(store, key, st) ==
    LET r == RawDelete(store, key, st) IN
    [res |-> IF r.res.ok THEN OkUnit ELSE RocksDbError(r.res.err), store |-> r.store]

\* A new that starts from an empty store on every open.
new_Truncate(store, existed, locked, st) ==
    LET r == OpenDefault(store, existed, locked, st) IN
    IF r.res.ok THEN [opened |-> TRUE, panic |-> FALSE, reason |-> "", store |-> EmptyStore]
    ELSE [opened |-> FALSE, panic |-> TRUE, reason |-> r.res.err, store |-> r.store]

\* A new that hands out an adapter whether or not the open succeeded.
new_OpenAnyway(store, existed, locked, st) ==
    LET r == OpenDefault(store, existed, locked, st) IN
    [opened |-> TRUE, panic |-> FALSE, reason |-> "", store |-> r.store]

\* RocksDb::new: the adapter on success, panic!(reason) otherwise.
new(store, existed, locked, st) ==
    LET r == OpenDefault(store, existed, locked, st) IN
    IF r.res.ok THEN [opened |-> TRUE, panic |-> FALSE, reason |-> "", store |-> r.store]
    ELSE [opened |-> FALSE, panic |-> TRUE, reason |-> r.res.err, store |-> r.store]

\* ------------------------------------------------------------------- state

VARIABLES
    disk,      \* disk[p][k]: what the store at path p holds for key k
    exists,    \* exists[p]: a store has been created at path p
    adapter,   \* adapter[a]: the path adapter a holds a handle on, or Closed
    written,   \* history: written[p][k] is the last value successfully inserted
               \* at p for k and not removed since, as the callers saw it
    last,      \* the call that has just returned, with its result
    prev       \* the call before it

vars == <<disk, exists, adapter, written, last, prev>>

NoCall ==
    [op |-> "none", a |-> "-", path |-> "-", key |-> 0, val |-> <<>>,
     st |-> EngOk, res |-> OkUnit, old |-> None, existed |-> FALSE]

Call(op, a, p, k, v, st, res, old, existed) ==
    [op |-> op, a |-> a, path |-> p, key |-> k, val |-> v,
     st |-> st, res |-> res, old |-> old, existed |-> existed]

Init ==
    /\ disk = [p \in Paths |-> EmptyStore]
    /\ exists = [p \in Paths |-> FALSE]
    /\ adapter = [a \in Adapters |-> Closed]
    /\ written = [p \in Paths |-> EmptyStore]
    /\ last = NoCall
    /\ prev = NoCall

IsOpen(a) == adapter[a] # Closed

Locked(p) == \E b \in Adapters : adapter[b] = p

\* let db = RocksDb::new(dir).  When new panics, the unwinding drops the
\* adapters owned by the frames it unwinds (unwound): all, some or none of the
\* live ones, by where the caller catches it and which thread owns them.
CallNew(a, p, st, unwound) ==
    /\ ~IsOpen(a)
    /\ unwound \subseteq {b \in Adapters : IsOpen(b)}
    /\ LET r == new(disk[p], exists[p], Locked(p), st) IN
       /\ ~r.panic => unwound = {}
       /\ adapter' = [b \in Adapters |->
                         IF b = a /\ r.opened THEN p
                         ELSE IF b \in unwound THEN Closed
                         ELSE adapter[b]]
       /\ exists' = [exists EXCEPT ![p] = exists[p] \/ r.opened]
       /\ disk' = [disk EXCEPT ![p] = r.store]
       /\ last' = Call("new", a, p, 0, <<>>, st,
                       IF r.panic THEN Panic(r.reason) ELSE OkUnit,
                       None, exists[p])
    /\ prev' = last
    /\ UNCHANGED written

\* The adapter goes out of scope: the last owner of the Arc drops the engine.
Drop(a) ==
    /\ IsOpen(a)
    /\ adapter' = [adapter EXCEPT ![a] = Closed]
    /\ last' = Call("drop", a, adapter[a], 0, <<>>, EngOk, OkUnit, None, TRUE)
    /\ prev' = last
    /\ UNCHANGED <<disk, exists, written>>

CallGet(a, k, st) ==
    /\ IsOpen(a)
    /\ LET p == adapter[a] IN
       last' = Call("get", a, p, k, <<>>, st, get(disk[p], k, st), written[p][k], TRUE)
    /\ prev' = last
    /\ UNCHANGED <<disk, exists, adapter, written>>

CallContains(a, k, st) ==
    /\ IsOpen(a)
    /\ LET p == adapter[a] IN
       last' = Call("contains", a, p, k, <<>>, st, contains(disk[p], k, st),
                    written[p][k], TRUE)
    /\ prev' = last
    /\ UNCHANGED <<disk, exists, adapter, written>>

CallInsert(a, k, v, st) ==
    /\ IsOpen(a)
    /\ LET p == adapter[a]
           r == insert(disk[p], k, v, st) IN
       /\ disk' = [disk EXCEPT ![p] = r.store]
       /\ written' = IF r.res.ok THEN [written EXCEPT ![p][k] = Some(v)] ELSE written
       /\ last' = Call("insert", a, p, k, v, st, r.res, written[p][k], TRUE)
    /\ prev' = last
    /\ UNCHANGED <<exists, adapter>>

CallRemove(a, k, st) ==
    /\ IsOpen(a)
    /\ LET p == adapter[a]
           r == remove(disk[p], k, st) IN
       /\ disk' = [disk EXCEPT ![p] = r.store]
       /\ written' = IF r.res.ok THEN [written EXCEPT ![p][k] = None] ELSE written
       /\ last' = Call("remove", a, p, k, <<>>, st, r.res, written[p][k], TRUE)
    /\ prev' = last
    /\ UNCHANGED <<exists, adapter>>

Next ==
    \/ \E a \in Adapters, p \in Paths, st \in EngineStatus, unwound \in SUBSET Adapters :
          CallNew(a, p, st, unwound)
    \/ \E a \in Adapters : Drop(a)
    \/ \E a \in Adapters, k \in Keys, st \in EngineStatus : CallGet(a, k, st)
    \/ \E a \in Adapters, k \in Keys, st \in EngineStatus : CallContains(a, k, st)
    \/ \E a \in Adapters, k \in Keys, v \in Values, st \in EngineStatus : CallInsert(a, k, v, st)
    \/ \E a \in Adapters, k \in Keys, st \in EngineStatus : CallRemove(a, k, st)

Spec == Init /\ [][Next]_vars

\* ------------------------------------------------------------ properties

FourOps == {"get", "insert", "contains", "remove"}

\* The call that has just returned follows, on the same adapter and key, the
\* call before it.
SameKey == last.a = prev.a /\ last.path = prev.path /\ last.key = prev.key

\* C1: for a key never inserted, or inserted and then removed, get returns
\* Ok(None) and contains returns Ok(false) whenever the engine answers; neither
\* returns an error.
C1_AbsenceIsNotFailure ==
    /\ (last.op = "get" /\ ~last.st.fail /\ ~last.old.some) => last.res = OkNone
    /\ (last.op = "contains" /\ ~last.st.fail /\ ~last.old.some) => last.res = OkBool(FALSE)

\* C2: a get that follows a successful insert(k, v) on the same key, with no
\* insert or remove of k in between, returns Ok(Some(v)), byte for byte.
C2_RoundTrip ==
    /\ (prev.op = "insert" /\ prev.res.ok /\ last.op = "get" /\ SameKey /\ ~last.st.fail)
          => last.res = OkSome(prev.val)
    /\ (last.op = "get" /\ ~last.st.fail /\ last.old.some)
          => last.res = OkSome(last.old.val)

\* C2 witness: insert(k, v) succeeded and the get right after it returned v.
C2_Witness ==
    /\ prev.op = "insert" /\ prev.res.ok
    /\ last.op = "get" /\ SameKey
    /\ last.res = OkSome(prev.val)

\* C3: whenever the engine reports a failure during get, insert, contains or
\* remove, the call returns Err(RocksDbError) carrying the engine's diagnostic.
C3_EngineFailureIsTypedError ==
    (last.op \in FourOps /\ last.st.fail) => last.res = RocksDbError(last.st.msg)

\* C4: releasing the handle and opening the same path again loses nothing: the
\* store holds exactly the last value successfully written for every key and
\* nothing for a removed key, and a get or contains through the reopened
\* adapter answers accordingly.
C4_DurableAcrossReopen ==
    /\ \A p \in Paths : disk[p] = written[p]
    /\ (prev.op = "new" /\ prev.res.ok /\ last.a = prev.a /\ ~last.st.fail) =>
          /\ (last.op = "get" /\ last.old.some) => last.res = OkSome(last.old.val)
          /\ (last.op = "get" /\ ~last.old.some) => ~last.res.ok
          /\ last.op = "contains" => last.res = OkBool(last.old.some)

\* C4 witness: the second adapter has opened a path that already held a store
\* and its first get returned a value written through an earlier handle.
C4_Witness ==
    /\ prev.op = "new" /\ prev.res.ok /\ prev.existed /\ prev.a = "db1"
    /\ last.op = "get" /\ last.a = prev.a
    /\ last.res.ok /\ last.res = OkSome(written[last.path][last.key].val)

\* C5: insert always overwrites: after insert(k, v1) and then insert(k, v2),
\* the store holds v2 for k and get(k) returns Ok(Some(v2)).
C5_Overwrite ==
    /\ (last.op = "insert" /\ last.res.ok)
          => disk[last.path][last.key] = Some(last.val)
    /\ (prev.op = "insert" /\ prev.res.ok /\ prev.old.some
        /\ last.op = "get" /\ SameKey /\ ~last.st.fail)
          => last.res = OkSome(prev.val)

\* C5 witness: insert(k, v2) replaced a different value v1 and the get right
\* after it returned v2.
C5_Witness ==
    /\ prev.op = "insert" /\ prev.res.ok
    /\ prev.old.some /\ prev.old.val # prev.val
    /\ last.op = "get" /\ SameKey
    /\ last.res = OkSome(prev.val)

\* C6: remove of an absent key returns Ok(()) and leaves the key absent; two
\* removes in a row both return Ok(()); after either, contains returns
\* Ok(false).
C6_IdempotentRemove ==
    /\ (last.op = "remove" /\ ~last.st.fail) => last.res = OkUnit
    /\ (last.op = "remove" /\ ~last.old.some) =>
          /\ disk[last.path] = written[last.path]
          /\ ~disk[last.path][last.key].some
    /\ (last.op = "remove" /\ last.res.ok) => ~disk[last.path][last.key].some
    /\ (prev.op = "remove" /\ (prev.res.ok \/ ~prev.old.some)
        /\ last.op = "contains" /\ SameKey)
          => last.res = OkBool(FALSE)

\* C6 witness: two removes of the same key in a row, the second of an absent
\* key, both returned Ok(()), and contains answers false.
C6_Witness ==
    /\ prev.op = "remove" /\ prev.res = OkUnit
    /\ last.op = "remove" /\ SameKey /\ ~last.old.some /\ last.res = OkUnit
    /\ contains(disk[last.path], last.key, EngOk) = OkBool(FALSE)

\* C7: contains returns Ok(true) exactly when get returns a present value,
\* which, whenever the engine answers, is exactly for the keys inserted and not
\* removed since; it returns Ok(false) for every other key.
C7_ContainsAgreesWithGet ==
    last.op = "contains" =>
        LET g == get(disk[last.path], last.key, last.st) IN
        /\ last.res \in {OkBool(TRUE), OkBool(FALSE)}
        /\ last.res = OkBool(TRUE) <=> (g.ok /\ g.kind = "some")
        /\ last.res = OkBool(TRUE) <=> (~last.st.fail /\ last.old.some)

\* C7 witness: contains answered false for one key and then true for another.
C7_Witness ==
    /\ prev.op = "contains" /\ prev.res = OkBool(FALSE) /\ ~prev.st.fail
    /\ last.op = "contains" /\ last.res = OkBool(TRUE)
    /\ last.key # prev.key

\* C8: new opens or creates (a path with no store yields an empty one, a path
\* with a store yields what was written to it); when the open fails new
\* panics, carrying the engine's diagnostic, and returns neither an adapter nor
\* an error value, so every adapter, and every get / insert / contains /
\* remove, is on an opened store.
C8_OpenFailureIsFatal ==
    /\ (last.op = "new" /\ last.res.ok) =>
          /\ ~last.st.fail
          /\ adapter[last.a] = last.path
          /\ exists[last.path]
          /\ ~last.existed => disk[last.path] = EmptyStore
          /\ last.existed => disk[last.path] = written[last.path]
    /\ (last.op = "new" /\ (last.st.fail \/ ~last.res.ok)) =>
          /\ last.res \in {Panic(last.st.msg), Panic(LockHeld)}
          /\ last.st.fail \/ last.res = Panic(LockHeld)
          /\ adapter[last.a] = Closed
    /\ \A a \in Adapters : IsOpen(a) => exists[adapter[a]]
    /\ last.op \in FourOps => (exists[last.path] /\ adapter[last.a] = last.path)

\* C8 witness: the engine failed the open of a path that holds no store yet,
\* and new panicked with the engine's diagnostic, leaving no adapter.
C8_Witness ==
    /\ last.op = "new" /\ last.st.fail
    /\ last.res = Panic(last.st.msg)
    /\ ~exists[last.path]
    /\ \A a \in Adapters : ~IsOpen(a)

\* C10: get and contains never change the store, whatever they return; insert
\* and remove change the mapping of their own key only.
C10_Frame ==
    [][/\ last'.op \in {"get", "contains"} => disk' = disk
       /\ last'.op \in {"insert", "remove"} =>
             \A p \in Paths, k \in Keys :
                 (p # last'.path \/ k # last'.key) => disk'[p][k] = disk[p][k]]_vars

\* C10 witness: a remove succeeded on one key while another key holds a value.
C10_Witness ==
    /\ last.op = "remove" /\ last.res.ok /\ last.old.some
    /\ \E k \in Keys : k # last.key /\ disk[last.path][k].some

====
